---- MODULE Spec2Model ----
(***************************************************************************)
(* Project Eagle installer: the install pipeline of InstallPage (start,   *)
(* _worker, refresh_ui), the folder verification of SelectPage and the    *)
(* dependency acknowledgment of DependencyPage.                            *)
(*                                                                         *)
(* The repository holds two variants of the installer.  "rootwrapped" is  *)
(* src/Untitled-1.py: the archive is extracted into a temporary directory *)
(* and the children of its single root folder are moved into the game     *)
(* folder, then permissions are normalized.  "flat" is                    *)
(* src/unnamed/part_000: the archive is extracted straight into the game  *)
(* folder.  The variant is fixed when the program starts.                 *)
(*                                                                         *)
(* Progress is a float in the source; here it is an integer in units of   *)
(* 1/200, so 0.5 is Half = 100 and 1.0 is Full = 200.                      *)
(*                                                                         *)
(* Phase names are the source's: "waiting" is the spec's idle,            *)
(* "installing" its extracting, "error" its failed.                        *)
(*                                                                         *)
(* Seven specifications share the actions.  Spec is the install pipeline  *)
(* with the page handlers that decide its preconditions.  SpecSelect is   *)
(* SelectPage alone, over every content of the folder verified and over   *)
(* a blacklist that also has a directory entry.  SpecScan is the scan of  *)
(* the dependencies in verify and check_deps, over every answer of the    *)
(* three probes.  SpecDeps is DependencyPage with its installer threads.  *)
(* SpecAck is SelectPage and DependencyPage together: every handler that   *)
(* writes deps_ok.                                                         *)
(* SpecPoll is the pipeline beside refresh_ui, the callback that polls    *)
(* what the worker writes.  SpecLive is the pipeline under the fairness    *)
(* a started thread has: its own statements run, while the server, 7zr     *)
(* and the user who must dismiss a message box may take forever.           *)
(* The worker never writes a variable of the pages and the pages never    *)
(* write one of the worker.                                               *)
(***************************************************************************)
EXTENDS Integers, Sequences, FiniteSets, TLC

\* ---- bounds of the model ------------------------------------------------
MaxChunks == 2      \* chunks one download stream delivers at most

\* ---- program constants ---------------------------------------------------
Half == 100         \* the 0.5 of "(dl/total) * 0.5" and "0.5 + p * 0.5"
Full == 2 * Half    \* self.progress = 1.0

Variants == {"rootwrapped", "flat"}
Workers == {1, 2}                  \* thread slots: threading.Thread(target=self._worker)
Totals == {0, 1, 2}                \* Content-Length, in chunks (0: header absent)
Pcts == {0, 50, 100}               \* percentage tokens 7zr prints
Children == {"a", "b"}             \* entries of the archive's root folder
Names == {"a", "b", "c"}           \* top-level entry names of the game folder
Deps == {"DirectX", "DotNet", "VC"}
DEPENDENCIES == <<"DirectX", "DotNet", "VC">>     \* the dict, in insertion order
InstallThreads == {1, 2}           \* thread slots of _install_deps
Codes == {5, 32, 33}               \* what ShellExecuteW returns
ProbeOutcomes == {"true", "false", "raises"}

\* What the three probes answer in one scan: one assignment of outcomes to the
\* dependencies.  The scans the model draws from:
AllPresent == [d \in Deps |-> "true"]
ProbeRuns ==
    { AllPresent,
      [AllPresent EXCEPT !["DirectX"] = "false"],
      [AllPresent EXCEPT !["DotNet"] = "raises"],
      [d \in Deps |-> IF d = "VC" THEN "raises" ELSE "false"] }

EXPECTED_EXECUTABLE == "gta_sa.exe"
BLACKLISTED_FILES == <<"modloader.asi", "d3d9.dll", "$fastman92limitAdjuster.asi">>

\* A blacklist with an entry written with a trailing slash: the list verify
\* would run on once a mod folder is blacklisted.
DIR_BLACKLIST == <<"modloader.asi", "mods/", "d3d9.dll">>
Blacklists == {BLACKLISTED_FILES, DIR_BLACKLIST}

\* item.endswith('/') and item.rstrip('/'), on the strings of the blacklists
EndsWithSlash(item) == item = "mods/"
RStrip(item) == IF item = "mods/" THEN "mods" ELSE item

\* The folders the user can browse to, and the files and directories in them.
Paths == {"gameA", "gameB", "modded", "nomarker"}
DirFiles(p) ==
    CASE p = "gameA" -> {"gta_sa.exe"}
      [] p = "gameB" -> {"gta_sa.exe"}
      [] p = "modded" -> {"gta_sa.exe", "modloader.asi", "d3d9.dll"}
      [] OTHER -> {}
DirDirs(p) ==
    CASE p = "nomarker" -> {"gta_sa.exe"}
      [] OTHER -> {}
MainFs == [p \in Paths |-> [files |-> DirFiles(p), dirs |-> DirDirs(p)]]

\* Every content a folder can have in the names verify looks at: each name is
\* absent, a file or a directory.
EntryNames == {"gta_sa.exe", "modloader.asi", "d3d9.dll",
               "$fastman92limitAdjuster.asi", "mods"}
Contents ==
    {[files |-> f, dirs |-> d] : <<f, d>> \in
        {x \in (SUBSET EntryNames) \X (SUBSET EntryNames) : x[1] \cap x[2] = {}}}

\* What the temporary directory lists after 7zr ran: the kinds of its entries.
Listings == {<<>>, <<"dir">>, <<"file">>, <<"dir", "dir">>}

VARIABLES
    variant,          \* which of the two installers runs
    path_var,         \* SelectPage.path_var
    game_path,        \* Installer.game_path
    deps_ok,          \* Installer.deps_ok
    dep_ui,           \* DependencyPage built its "missing" widgets (skip button exists)
    fs,               \* the files and directories of each folder the user can browse to
    blacklist,        \* the module's BLACKLISTED_FILES
    dep_missing,      \* the `missing` list check_deps built the page from
    ipc,              \* position of each _install_deps thread
    iq,               \* the dependencies an _install_deps thread has still to handle
    launches,         \* history: the ShellExecuteW calls of an _install_deps thread
    ierr,             \* history: what made an _install_deps thread show its error box
    verify_msg,       \* history: the box verify showed for the text now in path_var
    scanned,          \* history: the last scan of the probes, its calls and its result
    acked,            \* history: a clean scan, a skip or a confirmed notice happened
    poll,             \* refresh_ui: its after callback is pending, it runs, or neither
    seen,             \* what the running refresh_ui read: progress, phase, current_file
    install_success,  \* Installer.install_success (install_ok is written with it)
    start_btn,        \* InstallPage.start_btn is enabled
    enable_pending,   \* queued after(0) callbacks that enable start_btn
    phase,            \* InstallPage.phase
    progress,         \* InstallPage.progress, in units of 1/200
    current_file,     \* InstallPage.current_file
    archive,          \* the scratch archive file exists
    tmpdir,           \* the directory of TemporaryDirectory(prefix="PE_inst_") exists
    target,           \* top-level entries of the game folder
    pc,               \* position of each worker thread
    temp,             \* the worker's local `temp` is bound
    total,            \* the worker's local `total`
    dl,               \* the worker's local `dl`
    lastPct,          \* last percentage 7zr printed
    todo,             \* entries the merge loop has still to move
    trace,            \* history: values written to phase in the current attempt
    written,          \* history: the current attempt has written progress
    cleanup,          \* history: what the finally block did in the current attempt
    moved,            \* history: the current attempt moved an entry into the game folder
    normalized,       \* history: the current attempt ran the permission walk
    raised,           \* history: where the current attempt raised its exception
    extracts,         \* history: how often the current attempt launched 7zr
    aborted,          \* history: the current attempt returned on a precondition
    touched,          \* history: the current attempt changed an entry of the game folder
    layout,           \* history: what the current attempt found in the temporary directory
    warned            \* history: the paths whose permission failure the attempt logged

vars == <<variant, path_var, game_path, deps_ok, dep_ui, fs, blacklist,
          dep_missing, ipc, iq, launches, ierr, verify_msg, scanned, acked,
          poll, seen, install_success,
          start_btn, enable_pending, phase, progress, current_file, archive, tmpdir,
          target, pc, temp, total, dl, lastPct, todo,
          trace, written, cleanup, moved, normalized, raised, extracts, aborted,
          touched, layout, warned>>

envVars == <<fs, blacklist>>
threadVars == <<ipc, iq, launches, ierr>>
depVars == <<dep_missing, threadVars>>
pollVars == <<poll, seen>>
selectVars == <<path_var, game_path, deps_ok, dep_ui, envVars, pollVars, depVars,
                verify_msg, scanned, acked>>
mergeHist == <<touched, layout, warned>>
sharedVars == <<phase, progress, current_file, install_success>>
localVars == <<temp, total, dl, lastPct, todo>>
histVars == <<trace, written, cleanup, moved, normalized, raised, extracts, aborted,
              mergeHist>>
uiVars == <<start_btn, enable_pending>>
fsVars == <<archive, tmpdir, target>>

Terminated == {"idle", "done", "crashed"}     \* no thread runs in the slot
Active(w) == pc[w] \notin Terminated

\* ---- pure helpers --------------------------------------------------------

\* self.progress = (dl/total if total else 0) * 0.5
DownloadProgress(d, t) == IF t # 0 THEN (d * Half) \div t ELSE 0

\* ExtractProgress with a fault: the half reserved for the download is not added
ExtractProgressNoOffset(p) == (p * Half) \div 100

\* overall = 0.5 + p * 0.5, with p = int(pct) / 100.0
ExtractProgress(p) == Half + (p * Half) \div 100

\* IsFile with a fault: os.path.exists stands where os.path.isfile should
Exists(p, name) == p \in Paths /\ name \in (fs[p].files \cup fs[p].dirs)

\* os.path.isfile(os.path.join(p, name))
IsFile(p, name) == p \in Paths /\ name \in fs[p].files

\* os.path.isdir(os.path.join(p, name))
IsDir(p, name) == p \in Paths /\ name \in fs[p].dirs

\* the test verify makes on one blacklist entry
\*   if item.endswith('/'): os.path.isdir(full_path.rstrip('/'))
\*   elif os.path.isfile(full_path)
Hit(p, item) ==
    IF EndsWithSlash(item) THEN IsDir(p, RStrip(item)) ELSE IsFile(p, item)

\* what verify appends for a hit: item.rstrip('/') or item
Reported(item) == IF EndsWithSlash(item) THEN RStrip(item) ELSE item

\* FoundModsFrom with a fault: the loop breaks at the first hit
FoundModsFirstHit(list, p, i) ==
    LET hits == {j \in i..Len(list) : Hit(p, list[j])}
    IN IF hits = {} THEN <<>>
       ELSE <<Reported(list[CHOOSE j \in hits : \A k \in hits : j <= k])>>

\* found_mods of SelectPage.verify: the loop over the blacklist from entry i on
RECURSIVE FoundModsFrom(_, _, _)
FoundModsFrom(list, p, i) ==
    IF i > Len(list) THEN <<>>
    ELSE (IF Hit(p, list[i]) THEN <<Reported(list[i])>> ELSE <<>>)
         \o FoundModsFrom(list, p, i + 1)

FoundMods(p) == FoundModsFrom(blacklist, p, 1)

\* the `missing` list of verify and check_deps: a probe that returns false or
\* raises puts its dependency on the list
Missing(outcome) == {d \in Deps : outcome[d] # "true"}

\* ScanFrom with a fault: a probe that raises ends the scan
ScanStopsAtRaise(outcome, i) ==
    LET stop == {j \in i..Len(DEPENDENCIES) : outcome[DEPENDENCIES[j]] = "raises"}
        last == IF stop = {} THEN Len(DEPENDENCIES)
                ELSE CHOOSE j \in stop : \A k \in stop : j <= k
    IN [calls |-> SubSeq(DEPENDENCIES, i, last),
        missing |-> SelectSeq(SubSeq(DEPENDENCIES, i, last),
                              LAMBDA d : outcome[d] = "false")]

\* the scan loop of verify and check_deps from dependency i on: fn() is
\* called; a false answer and an exception both append the dependency
\*   for dep, fn in self.DEPENDENCIES.items():
\*       try:
\*           if not fn(): missing.append(dep)
\*       except Exception: missing.append(dep)
RECURSIVE ScanFrom(_, _)
ScanFrom(outcome, i) ==
    IF i > Len(DEPENDENCIES) THEN [calls |-> <<>>, missing |-> <<>>]
    ELSE LET dep == DEPENDENCIES[i]
             rest == ScanFrom(outcome, i + 1)
         IN [calls |-> <<dep>> \o rest.calls,
             missing |-> (IF outcome[dep] = "true" THEN <<>> ELSE <<dep>>)
                         \o rest.missing]

Scan(outcome) == ScanFrom(outcome, 1)

NoScan == [outcome |-> AllPresent, calls |-> <<>>, missing |-> <<>>]
NoMsg == [title |-> "none", mods |-> <<>>]

NoListing == <<"unlisted">>      \* os.listdir(tmpdir) has not run

\* IsRootFolder with a fault: the isdir test is left out
IsSingleEntry(contents) == Len(contents) = 1

\* len(contents) == 1 and os.path.isdir(os.path.join(tmpdir, contents[0]))
IsRootFolder(contents) == Len(contents) = 1 /\ contents[1] = "dir"

\* Replaced with a fault: dst is not removed first, so the move lands on
\* what is there
MovedOnto(old) == IF old = "absent" THEN "new" ELSE "mixed"

\* the entry at dst after "rmtree or remove dst if it exists; shutil.move"
Replaced(old) == "new"

\* the game folder before any install: a and c are there, b is not
InitTarget == [n \in Names |-> IF n = "b" THEN "absent" ELSE "old"]

\* refresh_ui is not running: it holds no values
NoSnapshot == [progress |-> 0, phase |-> "waiting", file |-> ""]

\* the state after construction, whatever the folders hold
InitProgram ==
    /\ variant \in Variants
    /\ path_var = ""
    /\ game_path = ""
    /\ deps_ok = FALSE
    /\ dep_ui = FALSE
    /\ dep_missing = <<>>
    /\ ipc = [t \in InstallThreads |-> "idle"]
    /\ iq = [t \in InstallThreads |-> <<>>]
    /\ launches = [t \in InstallThreads |-> <<>>]
    /\ ierr = [t \in InstallThreads |-> "none"]
    /\ verify_msg = NoMsg
    /\ scanned = NoScan
    /\ acked = FALSE
    /\ poll = "armed"                    \* self.after(100, self.refresh_ui)
    /\ seen = NoSnapshot
    /\ install_success = FALSE
    /\ start_btn = TRUE
    /\ enable_pending = 0
    /\ phase = "waiting"
    /\ progress = 0
    /\ current_file = ""
    /\ archive = FALSE
    /\ tmpdir = FALSE
    /\ target = InitTarget
    /\ pc = [w \in Workers |-> "idle"]
    /\ temp = [w \in Workers |-> FALSE]
    /\ total = [w \in Workers |-> 0]
    /\ dl = [w \in Workers |-> 0]
    /\ lastPct = [w \in Workers |-> 0]
    /\ todo = [w \in Workers |-> {}]
    /\ trace = <<>>
    /\ written = FALSE
    /\ cleanup = "none"
    /\ moved = FALSE
    /\ normalized = FALSE
    /\ raised = "none"
    /\ extracts = 0
    /\ aborted = FALSE
    /\ touched = FALSE
    /\ layout = NoListing
    /\ warned = {}

Init ==
    /\ InitProgram
    /\ fs = MainFs
    /\ blacklist = BLACKLISTED_FILES

\* ---- SelectPage / DependencyPage -----------------------------------------

\* p = filedialog.askdirectory(...); if p: self.path_var.set(p)
Browse(p) ==
    /\ path_var' = p
    /\ verify_msg' = NoMsg
    /\ UNCHANGED <<variant, game_path, deps_ok, dep_ui, envVars, pollVars, depVars, scanned,
                   acked, sharedVars, uiVars, fsVars, pc, localVars, histVars>>

\* Verify with a fault: the folder is recorded before it is checked
VerifyRecordsFirst(outcome) ==
    /\ game_path' = path_var
    /\ IF ~IsFile(path_var, EXPECTED_EXECUTABLE)
       THEN /\ verify_msg' = [title |-> "Error", mods |-> <<>>]
            /\ UNCHANGED <<deps_ok, scanned, acked>>
       ELSE IF FoundMods(path_var) # <<>>
       THEN /\ verify_msg' = [title |-> "Modified Installation Detected",
                               mods |-> FoundMods(path_var)]
            /\ UNCHANGED <<deps_ok, scanned, acked>>
       ELSE /\ verify_msg' = [title |-> "Verified", mods |-> <<>>]
            /\ scanned' = [outcome |-> outcome, calls |-> Scan(outcome).calls,
                            missing |-> Scan(outcome).missing]
            /\ deps_ok' = IF Scan(outcome).missing = <<>> THEN TRUE ELSE deps_ok
            /\ acked' = IF Scan(outcome).missing = <<>> THEN TRUE ELSE acked
    /\ UNCHANGED <<variant, path_var, dep_ui, envVars, pollVars, depVars, sharedVars, uiVars,
                   fsVars, pc, localVars, histVars>>

\* verify: the marker test, the blacklist test, then game_path = p and the
\* scan of the dependencies; deps_ok is set when nothing is missing
Verify(outcome) ==
    /\ IF ~IsFile(path_var, EXPECTED_EXECUTABLE)
       THEN /\ verify_msg' = [title |-> "Error", mods |-> <<>>]
            /\ UNCHANGED <<game_path, deps_ok, scanned, acked>>
       ELSE IF FoundMods(path_var) # <<>>
       THEN /\ verify_msg' = [title |-> "Modified Installation Detected",
                               mods |-> FoundMods(path_var)]
            /\ UNCHANGED <<game_path, deps_ok, scanned, acked>>
       ELSE /\ verify_msg' = [title |-> "Verified", mods |-> <<>>]
            /\ game_path' = path_var
            /\ scanned' = [outcome |-> outcome, calls |-> Scan(outcome).calls,
                            missing |-> Scan(outcome).missing]
            /\ deps_ok' = IF Scan(outcome).missing = <<>> THEN TRUE ELSE deps_ok
            /\ acked' = IF Scan(outcome).missing = <<>> THEN TRUE ELSE acked
    /\ UNCHANGED <<variant, path_var, dep_ui, envVars, pollVars, depVars, sharedVars, uiVars,
                   fsVars, pc, localVars, histVars>>

\* CheckDeps with a fault: a scan that finds a dependency missing withdraws
\* the acknowledgement
CheckDepsWithdraws(outcome) ==
    /\ scanned' = [outcome |-> outcome, calls |-> Scan(outcome).calls,
                    missing |-> Scan(outcome).missing]
    /\ IF Scan(outcome).missing = <<>>
       THEN /\ deps_ok' = TRUE
            /\ acked' = TRUE
            /\ dep_ui' = FALSE
            /\ dep_missing' = <<>>
       ELSE /\ dep_ui' = TRUE
            /\ dep_missing' = Scan(outcome).missing
            /\ deps_ok' = FALSE
            /\ UNCHANGED acked
    /\ UNCHANGED <<variant, path_var, game_path, envVars, pollVars, threadVars, verify_msg,
                   sharedVars, uiVars, fsVars, pc, localVars, histVars>>

\* check_deps first destroys the page's widgets; it builds them again (with
\* the install and the skip button) only when a dependency is missing
CheckDeps(outcome) ==
    /\ scanned' = [outcome |-> outcome, calls |-> Scan(outcome).calls,
                    missing |-> Scan(outcome).missing]
    /\ IF Scan(outcome).missing = <<>>
       THEN /\ deps_ok' = TRUE
            /\ acked' = TRUE
            /\ dep_ui' = FALSE
            /\ dep_missing' = <<>>
       ELSE /\ dep_ui' = TRUE
            /\ dep_missing' = Scan(outcome).missing
            /\ UNCHANGED <<deps_ok, acked>>
    /\ UNCHANGED <<variant, path_var, game_path, envVars, pollVars, threadVars, verify_msg,
                   sharedVars, uiVars, fsVars, pc, localVars, histVars>>

\* _skip_dependencies, the command of the skip button
SkipDependencies ==
    /\ dep_ui
    /\ deps_ok' = TRUE
    /\ acked' = TRUE
    /\ UNCHANGED <<variant, path_var, game_path, dep_ui, envVars, pollVars, depVars,
                   verify_msg, scanned, sharedVars, uiVars, fsVars, pc, localVars,
                   histVars>>

\* ---- DependencyPage._install_deps ---------------------------------------

workerVars == <<sharedVars, uiVars, fsVars, pc, localVars, histVars>>

\* the install button: threading.Thread(target=lambda: self._install_deps(missing))
InstallClick(t) ==
    /\ dep_ui
    /\ ipc[t] = "idle"
    /\ \A u \in InstallThreads : u < t => ipc[u] # "idle"
    /\ ipc' = [ipc EXCEPT ![t] = "download"]
    /\ iq' = [iq EXCEPT ![t] = dep_missing]
    /\ UNCHANGED <<variant, path_var, game_path, deps_ok, dep_ui, envVars, pollVars,
                   dep_missing, launches, ierr, verify_msg, scanned, acked,
                   workerVars>>

\* requests.get, raise_for_status and the chunk loop for the dependency at the
\* head of the list: the installer file is written, or the download raises and
\* the except of the loop body shows the error box
DepDownload(t) ==
    /\ ipc[t] = "download"
    /\ iq[t] # <<>>
    /\ \/ ipc' = [ipc EXCEPT ![t] = "launch"] /\ UNCHANGED ierr
       \/ /\ ipc' = [ipc EXCEPT ![t] = "err_box"]
          /\ ierr' = [ierr EXCEPT ![t] = "download"]
    /\ UNCHANGED <<variant, path_var, game_path, deps_ok, dep_ui, envVars, pollVars,
                   dep_missing, iq, launches, verify_msg, scanned, acked,
                   workerVars>>

\* LaunchStarted with a fault: the test is result < 32
LaunchStartedFrom32(result) == ~(result < 32)

\* if result <= 32: raise Exception("Failed to run installer: ...")
LaunchStarted(result) == ~(result <= 32)

\* DepLaunch with a fault: the except of the loop body goes on with the next
\* dependency
DepLaunchContinues(t) ==
    /\ ipc[t] = "launch"
    /\ \E result \in Codes :
          launches' = [launches EXCEPT
                          ![t] = Append(@, [dep |-> Head(iq[t]), code |-> result])]
    /\ iq' = [iq EXCEPT ![t] = Tail(iq[t])]
    /\ ipc' = [ipc EXCEPT ![t] = "download"]
    /\ UNCHANGED <<variant, path_var, game_path, deps_ok, dep_ui, envVars, pollVars,
                   dep_missing, ierr, verify_msg, scanned, acked, workerVars>>

\* result = ShellExecuteW(None, "runas", installer_path, ...): a result above
\* 32 goes on with the next dependency at once, any other raises into the
\* except of the loop body
DepLaunch(t) ==
    /\ ipc[t] = "launch"
    /\ \E result \in Codes :
          /\ launches' = [launches EXCEPT
                             ![t] = Append(@, [dep |-> Head(iq[t]), code |-> result])]
          /\ IF LaunchStarted(result)
             THEN /\ iq' = [iq EXCEPT ![t] = Tail(iq[t])]
                  /\ ipc' = [ipc EXCEPT ![t] = "download"]
                  /\ UNCHANGED ierr
             ELSE /\ ipc' = [ipc EXCEPT ![t] = "err_box"]
                  /\ ierr' = [ierr EXCEPT ![t] = "launch"]
                  /\ UNCHANGED iq
    /\ UNCHANGED <<variant, path_var, game_path, deps_ok, dep_ui, envVars, pollVars,
                   dep_missing, verify_msg, scanned, acked, workerVars>>

\* the thread's locals die with it
EndThread(t) ==
    /\ ipc' = [ipc EXCEPT ![t] = "idle"]
    /\ iq' = [iq EXCEPT ![t] = <<>>]
    /\ launches' = [launches EXCEPT ![t] = <<>>]
    /\ ierr' = [ierr EXCEPT ![t] = "none"]

\* the error box is dismissed: return, the finally block ends the thread
DepErrorReturn(t) ==
    /\ ipc[t] = "err_box"
    /\ EndThread(t)
    /\ UNCHANGED <<variant, path_var, game_path, deps_ok, dep_ui, envVars, pollVars,
                   dep_missing, verify_msg, scanned, acked, workerVars>>

\* after the loop: self.ctrl.deps_ok = True; messagebox.showinfo("Dependencies", ...)
AllLaunched(t) ==
    /\ ipc[t] = "download"
    /\ iq[t] = <<>>
    /\ deps_ok' = TRUE
    /\ ipc' = [ipc EXCEPT ![t] = "notice"]
    /\ UNCHANGED <<variant, path_var, game_path, dep_ui, envVars, pollVars, dep_missing, iq,
                   launches, ierr, verify_msg, scanned, acked, workerVars>>

\* the user clicks OK on the notice; the finally block ends the thread
NoticeConfirmed(t) ==
    /\ ipc[t] = "notice"
    /\ acked' = TRUE
    /\ EndThread(t)
    /\ UNCHANGED <<variant, path_var, game_path, deps_ok, dep_ui, envVars, pollVars,
                   dep_missing, verify_msg, scanned, workerVars>>

InstallerStep(t) ==
    \/ DepDownload(t)
    \/ DepLaunch(t)
    \/ DepErrorReturn(t)
    \/ AllLaunched(t)
    \/ NoticeConfirmed(t)

\* ---- InstallPage.start ----------------------------------------------------

\* StartEffect with a fault: start forgets to disable the button
StartEffectKeepsButton(w) ==
    /\ start_btn' = start_btn
    /\ pc' = [pc EXCEPT ![w] = "chk_deps"]

\* self.start_btn.configure(state="disabled"); threading.Thread(...).start()
StartEffect(w) ==
    /\ start_btn' = FALSE
    /\ pc' = [pc EXCEPT ![w] = "chk_deps"]

Start(w) ==
    /\ start_btn
    /\ ~Active(w)
    /\ \A v \in Workers : v < w => Active(v)      \* the slot is the first free one
    /\ StartEffect(w)
    /\ trace' = <<>>
    /\ written' = FALSE
    /\ cleanup' = "none"
    /\ moved' = FALSE
    /\ normalized' = FALSE
    /\ raised' = "none"
    /\ extracts' = 0
    /\ aborted' = FALSE
    /\ touched' = FALSE
    /\ layout' = NoListing
    /\ warned' = {}
    /\ UNCHANGED <<variant, selectVars, sharedVars, enable_pending, fsVars, localVars>>

\* ---- InstallPage._worker ---------------------------------------------------

SetPhase(v) == phase' = v /\ trace' = Append(trace, v)

\* the thread's locals die with it
DropLocals(w) ==
    /\ temp' = [temp EXCEPT ![w] = FALSE]
    /\ total' = [total EXCEPT ![w] = 0]
    /\ dl' = [dl EXCEPT ![w] = 0]
    /\ lastPct' = [lastPct EXCEPT ![w] = 0]
    /\ todo' = [todo EXCEPT ![w] = {}]

\* CheckPreconditions with a fault: the test of game_path is left out
CheckPreconditionsDepsOnly(w) ==
    /\ pc[w] = "chk_deps"
    /\ pc' = [pc EXCEPT ![w] = IF ~deps_ok THEN "abort_msg" ELSE "begin"]
    /\ aborted' = ~deps_ok
    /\ UNCHANGED <<variant, selectVars, mergeHist, sharedVars, uiVars, fsVars, localVars,
                   trace, written, cleanup, moved, normalized, raised, extracts>>

\* if not self.ctrl.deps_ok: showerror; return
\* if not self.ctrl.game_path: showerror; return
CheckPreconditions(w) ==
    /\ pc[w] = "chk_deps"
    /\ pc' = [pc EXCEPT ![w] = IF ~deps_ok \/ game_path = ""
                                THEN "abort_msg" ELSE "begin"]
    /\ aborted' = (~deps_ok \/ game_path = "")
    /\ UNCHANGED <<variant, selectVars, mergeHist, sharedVars, uiVars, fsVars, localVars,
                   trace, written, cleanup, moved, normalized, raised, extracts>>

\* the user dismisses the "Please complete ... first" box; the return runs finally
AbortReturn(w) ==
    /\ pc[w] = "abort_msg"
    /\ pc' = [pc EXCEPT ![w] = "finally"]
    /\ UNCHANGED <<variant, selectVars, sharedVars, uiVars, fsVars, localVars, histVars>>

\* temp = os.path.join(...); self.phase = "downloading"
BeginDownload(w) ==
    /\ pc[w] = "begin"
    /\ SetPhase("downloading")
    /\ temp' = [temp EXCEPT ![w] = TRUE]
    /\ pc' = [pc EXCEPT ![w] = "connect"]
    /\ UNCHANGED <<variant, selectVars, mergeHist, progress, current_file, install_success,
                   uiVars, fsVars, total, dl, lastPct, todo,
                   written, cleanup, moved, normalized,
                   raised, extracts, aborted>>

\* requests.get(...); r.raise_for_status(); total = ...; open(temp, "wb")
Connect(w) ==
    /\ pc[w] = "connect"
    /\ \/ /\ pc' = [pc EXCEPT ![w] = "except"]          \* connection error, non-2xx
          /\ raised' = "download"
          /\ UNCHANGED <<total, archive>>
       \/ \E t \in Totals :
             /\ total' = [total EXCEPT ![w] = t]
             /\ archive' = TRUE
             /\ pc' = [pc EXCEPT ![w] = "recv"]
             /\ UNCHANGED raised
    /\ UNCHANGED <<variant, selectVars, mergeHist, sharedVars, uiVars, tmpdir, target,
                   temp, dl, lastPct, todo,
                   trace, written, cleanup, moved, normalized, extracts, aborted>>

\* f.write(chunk); dl += len(chunk); self.progress = (dl/total if total else 0) * 0.5
ReceiveChunk(w) ==
    /\ pc[w] = "recv"
    /\ dl[w] < MaxChunks
    /\ dl' = [dl EXCEPT ![w] = dl[w] + 1]
    /\ progress' = DownloadProgress(dl[w] + 1, total[w])
    /\ written' = TRUE
    /\ pc' = [pc EXCEPT ![w] = "recv_status"]
    /\ UNCHANGED <<variant, selectVars, mergeHist, phase, current_file, install_success, uiVars,
                   fsVars, temp, total, lastPct, todo,
                   trace, cleanup, moved, normalized,
                   raised, extracts, aborted>>

\* self.speed = ...; self.current_file = f"Downloading {ARCHIVE_NAME}"
ChunkStatus(w) ==
    /\ pc[w] = "recv_status"
    /\ current_file' = "Downloading"
    /\ pc' = [pc EXCEPT ![w] = "recv"]
    /\ UNCHANGED <<variant, selectVars, phase, progress, install_success, uiVars,
                   fsVars, localVars, histVars>>

\* DownloadError with a fault: the broken stream is taken for its end
DownloadErrorSwallowed(w) ==
    /\ pc[w] = "recv"
    /\ SetPhase("installing")
    /\ pc' = [pc EXCEPT ![w] = "extract"]
    /\ raised' = "download"
    /\ extracts' = extracts + 1
    /\ UNCHANGED <<variant, selectVars, mergeHist, progress, current_file,
                   install_success, uiVars, fsVars, localVars,
                   written, cleanup, moved, normalized, aborted>>

\* iter_content raises: the connection broke after some chunks
DownloadError(w) ==
    /\ pc[w] = "recv"
    /\ pc' = [pc EXCEPT ![w] = "except"]
    /\ raised' = "download"
    /\ UNCHANGED <<variant, selectVars, mergeHist, sharedVars, uiVars, fsVars, localVars,
                   trace, written, cleanup, moved, normalized, extracts, aborted>>

\* DownloadDone with a fault: the phase is not set when the download ends
DownloadDoneNoPhase(w) ==
    /\ pc[w] = "recv"
    /\ pc' = [pc EXCEPT ![w] = "extract"]
    /\ extracts' = extracts + 1
    /\ tmpdir' = (variant = "rootwrapped")
    /\ UNCHANGED <<variant, selectVars, mergeHist, sharedVars, uiVars, archive, target,
                   localVars, trace, written, cleanup, moved, normalized, raised, aborted>>

\* the stream ends; self.phase = "installing" (flat: only if os.path.exists(temp));
\* rootwrapped: with TemporaryDirectory(prefix="PE_inst_") as tmpdir
DownloadDone(w) ==
    /\ pc[w] = "recv"
    /\ IF variant = "flat" /\ ~archive
       THEN /\ pc' = [pc EXCEPT ![w] = "except"]
            /\ raised' = "download"
            /\ UNCHANGED <<phase, trace, extracts, tmpdir>>
       ELSE /\ SetPhase("installing")
            /\ pc' = [pc EXCEPT ![w] = "extract"]
            /\ extracts' = extracts + 1
            /\ tmpdir' = (variant = "rootwrapped")
            /\ UNCHANGED raised
    /\ UNCHANGED <<variant, selectVars, mergeHist, progress, current_file, install_success,
                   uiVars, archive, target, localVars, written, cleanup, moved, normalized,
                   aborted>>

\* one line of 7zr output with a percentage token: on_progress(p, line)
\* (7zr's percentage counts the bytes it has processed: it does not go down).
\* The flat variant extracts into the game folder: entries appear as 7zr goes.
ExtractProgressLine(w) ==
    /\ pc[w] = "extract"
    /\ \E p \in Pcts :
          /\ p >= lastPct[w]
          /\ lastPct' = [lastPct EXCEPT ![w] = p]
          /\ progress' = ExtractProgress(p)
    /\ written' = TRUE
    /\ current_file' = "Extracting"
    /\ IF variant = "flat"
       THEN /\ \E c \in Children : target' = [target EXCEPT ![c] = "new"]
            /\ touched' = TRUE
       ELSE UNCHANGED <<target, touched>>
    /\ UNCHANGED <<variant, selectVars, phase, install_success, uiVars, archive, tmpdir,
                   pc, temp, total, dl, todo, trace, cleanup, moved, normalized,
                   raised, extracts, aborted, layout, warned>>

\* one line of 7zr output without a percentage token: ignored
ExtractOtherLine(w) ==
    /\ pc[w] = "extract"
    /\ UNCHANGED vars

\* ExtractFail with a fault: the return code of 7zr is not looked at
ExtractFailIgnored(w) ==
    /\ pc[w] = "extract"
    /\ pc' = [pc EXCEPT ![w] = IF variant = "flat" THEN "set_complete" ELSE "merge"]
    /\ todo' = [todo EXCEPT ![w] = IF variant = "flat" THEN {} ELSE Children]
    /\ raised' = "extract"
    /\ UNCHANGED <<variant, selectVars, mergeHist, sharedVars, uiVars, fsVars, temp, total, dl,
                   lastPct, trace, written, cleanup, moved, normalized, extracts, aborted>>

\* proc.wait(); returncode != 0 (or Popen itself raised): RuntimeError, which
\* leaves the with block
ExtractFail(w) ==
    /\ pc[w] = "extract"
    /\ pc' = [pc EXCEPT ![w] = "except"]
    /\ raised' = "extract"
    /\ tmpdir' = FALSE
    /\ UNCHANGED <<variant, selectVars, mergeHist, sharedVars, uiVars, archive, target,
                   localVars,
                   trace, written, cleanup, moved, normalized, extracts, aborted>>

\* proc.wait(); returncode == 0.  rootwrapped: contents = os.listdir(tmpdir) and
\* the test for exactly one top-level directory; flat: the game folder now holds
\* every entry of the archive
ExtractDone(w) ==
    /\ pc[w] = "extract"
    /\ IF variant = "flat"
       THEN /\ target' = [n \in Names |-> IF n \in Children THEN "new" ELSE target[n]]
            /\ touched' = TRUE
            /\ pc' = [pc EXCEPT ![w] = "set_complete"]
            /\ UNCHANGED <<todo, raised, layout, tmpdir>>
       ELSE /\ UNCHANGED <<target, touched>>
            /\ \E contents \in Listings :
                  /\ layout' = contents
                  /\ IF IsRootFolder(contents)
                     THEN /\ todo' = [todo EXCEPT ![w] = Children]
                          /\ pc' = [pc EXCEPT ![w] = "merge"]
                          /\ UNCHANGED <<raised, tmpdir>>
                     ELSE /\ UNCHANGED todo          \* "Unexpected archive structure"
                          /\ pc' = [pc EXCEPT ![w] = "except"]
                          /\ raised' = "layout"
                          /\ tmpdir' = FALSE         \* the raise leaves the with block
    /\ UNCHANGED <<variant, selectVars, sharedVars, uiVars, archive, temp, total,
                   dl, lastPct,
                   trace, written, cleanup, moved, normalized, extracts, aborted,
                   warned>>

\* one round of the merge loop: remove dst if it exists, shutil.move(src, dst)
MergeMove(w) ==
    /\ pc[w] = "merge"
    /\ \E n \in todo[w] :
          /\ target' = [target EXCEPT ![n] = Replaced(target[n])]
          /\ todo' = [todo EXCEPT ![w] = todo[w] \ {n}]
    /\ moved' = TRUE
    /\ touched' = TRUE
    /\ UNCHANGED <<variant, selectVars, sharedVars, uiVars, archive, tmpdir, pc, temp,
                   total, dl, lastPct, trace, written, cleanup, normalized,
                   raised, extracts, aborted, layout, warned>>

\* MergeFail with a fault: the directory is made with mkdtemp and removed only
\* after the merge loop, so an exception in the loop leaves it behind
MergeFailKeepsTmpdir(w) ==
    /\ pc[w] = "merge"
    /\ \E n \in todo[w] :
          \/ UNCHANGED <<target, touched>>
          \/ /\ target[n] # "absent"
             /\ target' = [target EXCEPT ![n] = "absent"]
             /\ touched' = TRUE
    /\ pc' = [pc EXCEPT ![w] = "except"]
    /\ raised' = "merge"
    /\ UNCHANGED <<variant, selectVars, sharedVars, uiVars, archive, tmpdir, localVars,
                   trace, written, cleanup, moved, normalized, extracts, aborted,
                   layout, warned>>

\* the removal or the move raises (entry in use, access denied): either dst is
\* still what it was, or it was removed and the move did not happen
MergeFail(w) ==
    /\ pc[w] = "merge"
    /\ \E n \in todo[w] :
          \/ UNCHANGED <<target, touched>>
          \/ /\ target[n] # "absent"
             /\ target' = [target EXCEPT ![n] = "absent"]
             /\ touched' = TRUE
    /\ pc' = [pc EXCEPT ![w] = "except"]
    /\ raised' = "merge"
    /\ tmpdir' = FALSE                   \* the exception leaves the with block
    /\ UNCHANGED <<variant, selectVars, sharedVars, uiVars, archive, localVars,
                   trace, written, cleanup, moved, normalized, extracts, aborted,
                   layout, warned>>

\* the paths os.walk(self.ctrl.game_path) hands to _ensure_normal_permissions
Walked == {n \in Names : target[n] # "absent"}

\* SetPermissions with a fault: a failure of icacls is raised, not logged
SetPermissionsRaises(w) ==
    /\ pc[w] = "merge"
    /\ todo[w] = {}
    /\ current_file' = "Setting file permissions..."
    /\ normalized' = TRUE
    /\ \E failing \in SUBSET Walked :
          /\ warned' = {}
          /\ pc' = [pc EXCEPT ![w] = IF failing = {} THEN "set_progress" ELSE "except"]
          /\ raised' = IF failing = {} THEN raised ELSE "permissions"
    /\ tmpdir' = FALSE                   \* the with block ends
    /\ UNCHANGED <<variant, selectVars, touched, layout, phase, progress,
                   install_success, uiVars, archive, target, localVars, trace, written,
                   cleanup, moved, extracts, aborted>>

\* self.current_file = "Setting file permissions..."; the os.walk over game_path
\* with _ensure_normal_permissions: on whatever paths running icacls raises,
\* the except of _ensure_normal_permissions logs a warning and the walk goes on
SetPermissions(w) ==
    /\ pc[w] = "merge"
    /\ todo[w] = {}
    /\ current_file' = "Setting file permissions..."
    /\ normalized' = TRUE
    /\ \E failing \in SUBSET Walked : warned' = failing
    /\ pc' = [pc EXCEPT ![w] = "set_progress"]
    /\ tmpdir' = FALSE                   \* the with block ends
    /\ UNCHANGED <<variant, selectVars, touched, layout, phase, progress,
                   install_success, uiVars, archive, target, localVars, trace, written,
                   cleanup, moved, raised, extracts, aborted>>

\* rootwrapped: self.current_file = "Installation complete!"; self.progress = 1.0
\* flat: self.progress = 1.0, after the phase was set
CompleteProgress(w) ==
    /\ pc[w] = "set_progress"
    /\ progress' = Full
    /\ written' = TRUE
    /\ IF variant = "flat"
       THEN /\ UNCHANGED current_file
            /\ pc' = [pc EXCEPT ![w] = "set_flags"]
       ELSE /\ current_file' = "Installation complete!"
            /\ pc' = [pc EXCEPT ![w] = "set_complete"]
    /\ UNCHANGED <<variant, selectVars, mergeHist, phase, install_success, uiVars, fsVars,
                   localVars, trace, cleanup, moved, normalized,
                   raised, extracts, aborted>>

\* self.phase = "complete"
CompletePhase(w) ==
    /\ pc[w] = "set_complete"
    /\ SetPhase("complete")
    /\ pc' = [pc EXCEPT ![w] = IF variant = "flat" THEN "set_progress" ELSE "set_flags"]
    /\ UNCHANGED <<variant, selectVars, mergeHist, progress, current_file, install_success,
                   uiVars, fsVars, localVars, written, cleanup, moved, normalized,
                   raised, extracts, aborted>>

\* self.ctrl.install_ok = True; self.ctrl.install_success = True; next_btn enabled
\* (rootwrapped: then the "Mod installed successfully!" box, until dismissed)
CompleteFlags(w) ==
    /\ pc[w] = "set_flags"
    /\ install_success' = TRUE
    /\ pc' = [pc EXCEPT ![w] = IF variant = "flat" THEN "finally" ELSE "ok_msg"]
    /\ UNCHANGED <<variant, selectVars, phase, progress, current_file, uiVars,
                   fsVars, localVars, histVars>>

SuccessDismissed(w) ==
    /\ pc[w] = "ok_msg"
    /\ pc' = [pc EXCEPT ![w] = "finally"]
    /\ UNCHANGED <<variant, selectVars, sharedVars, uiVars, fsVars, localVars, histVars>>

\* except Exception as e: self.log(...); messagebox.showerror(...) blocks
ShowError(w) ==
    /\ pc[w] = "except"
    /\ pc' = [pc EXCEPT ![w] = "err_msg"]
    /\ UNCHANGED <<variant, selectVars, sharedVars, uiVars, fsVars, localVars, histVars>>

\* FailEffect with a fault: a failure puts the page back to its waiting state
FailEffectToWaiting ==
    /\ SetPhase("waiting")
    /\ install_success' = FALSE
    /\ UNCHANGED <<progress, current_file>>

\* FailEffect with a fault: a failure resets the progress
FailEffectResets ==
    /\ SetPhase("error")
    /\ install_success' = FALSE
    /\ progress' = 0
    /\ UNCHANGED current_file

\* FailEffect with a fault: the success flags are left as they were
FailEffectKeepsSuccess ==
    /\ SetPhase("error")
    /\ UNCHANGED <<progress, current_file, install_success>>

\* what the except block writes once the box is dismissed
FailEffect ==
    /\ SetPhase("error")
    /\ install_success' = FALSE
    /\ UNCHANGED <<progress, current_file>>

\* the box is dismissed: self.phase = "error"; install_ok = install_success = False
SetError(w) ==
    /\ pc[w] = "err_msg"
    /\ FailEffect
    /\ pc' = [pc EXCEPT ![w] = "finally"]
    /\ UNCHANGED <<variant, selectVars, mergeHist, uiVars, fsVars, localVars,
                   written, cleanup, moved, normalized,
                   raised, extracts, aborted>>

\* finally: the cleanup of the temp file.
\* rootwrapped: try: os.remove(temp) except: pass   (an unbound temp is a
\*              NameError, swallowed with every other error)
\* flat:        if os.path.exists(temp): ...        (an unbound temp is an
\*              UnboundLocalError raised out of the finally block: the thread
\*              dies before the after(0) call)
Cleanup(w) ==
    /\ pc[w] = "finally"
    /\ IF temp[w]
       THEN /\ archive' = FALSE
            /\ cleanup' = "removed"
            /\ pc' = [pc EXCEPT ![w] = "schedule"]
            /\ UNCHANGED localVars
       ELSE /\ UNCHANGED archive
            /\ IF variant = "flat"
               THEN /\ cleanup' = "raised"
                    /\ pc' = [pc EXCEPT ![w] = "crashed"]
                    /\ DropLocals(w)
               ELSE /\ cleanup' = "swallowed"
                    /\ pc' = [pc EXCEPT ![w] = "schedule"]
                    /\ UNCHANGED localVars
    /\ UNCHANGED <<variant, selectVars, mergeHist, sharedVars, uiVars, tmpdir, target,
                   trace, written, moved, normalized,
                   raised, extracts, aborted>>

\* self.after(0, lambda: self.start_btn.configure(state="normal")); thread ends
ScheduleEnable(w) ==
    /\ pc[w] = "schedule"
    /\ enable_pending' = enable_pending + 1
    /\ pc' = [pc EXCEPT ![w] = "done"]
    /\ DropLocals(w)
    /\ UNCHANGED <<variant, selectVars, sharedVars, start_btn, fsVars, histVars>>

\* the main loop runs the queued callback
EnableStart ==
    /\ enable_pending > 0
    /\ enable_pending' = enable_pending - 1
    /\ start_btn' = TRUE
    /\ UNCHANGED <<variant, selectVars, sharedVars, fsVars, pc, localVars, histVars>>

\* ---- InstallPage.refresh_ui -----------------------------------------------

\* the callback runs: the bar and the percentage are set from self.progress,
\* the status label from self.phase and self.current_file
TickShow ==
    /\ poll = "armed"
    /\ poll' = "running"
    /\ seen' = [progress |-> progress, phase |-> phase, file |-> current_file]
    /\ UNCHANGED <<variant, path_var, game_path, deps_ok, dep_ui, envVars, depVars,
                   verify_msg, scanned, acked, workerVars>>

\* TickRearm with a fault: the callback is never scheduled again
TickRearmNever ==
    /\ poll = "running"
    /\ poll' = "stopped"
    /\ seen' = NoSnapshot
    /\ UNCHANGED <<variant, path_var, game_path, deps_ok, dep_ui, envVars, depVars,
                   verify_msg, scanned, acked, workerVars>>

\* if self.phase != "complete" and self.phase != "error":
\*     self.after(100, self.refresh_ui)
TickRearm ==
    /\ poll = "running"
    /\ poll' = IF phase # "complete" /\ phase # "error" THEN "armed" ELSE "stopped"
    /\ seen' = NoSnapshot                \* the callback returns
    /\ UNCHANGED <<variant, path_var, game_path, deps_ok, dep_ui, envVars, depVars,
                   verify_msg, scanned, acked, workerVars>>

WorkerStep(w) ==
    \/ CheckPreconditions(w)
    \/ AbortReturn(w)
    \/ BeginDownload(w)
    \/ Connect(w)
    \/ ReceiveChunk(w)
    \/ ChunkStatus(w)
    \/ DownloadError(w)
    \/ DownloadDone(w)
    \/ ExtractProgressLine(w)
    \/ ExtractOtherLine(w)
    \/ ExtractFail(w)
    \/ ExtractDone(w)
    \/ MergeMove(w)
    \/ MergeFail(w)
    \/ SetPermissions(w)
    \/ CompleteProgress(w)
    \/ CompletePhase(w)
    \/ CompleteFlags(w)
    \/ SuccessDismissed(w)
    \/ ShowError(w)
    \/ SetError(w)
    \/ Cleanup(w)
    \/ ScheduleEnable(w)

\* The pipeline reads of the pages only game_path and deps_ok: one folder
\* that verifies and two answers of the probes decide both.
PipelinePaths == {"gameA"}
PipelineRuns == {AllPresent, [AllPresent EXCEPT !["DirectX"] = "false"]}

Next ==
    \/ \E p \in PipelinePaths : Browse(p)
    \/ \E o \in PipelineRuns : Verify(o)
    \/ \E o \in PipelineRuns : CheckDeps(o)
    \/ SkipDependencies
    \/ \E w \in Workers : Start(w)
    \/ EnableStart
    \/ \E w \in Workers : WorkerStep(w)

Spec == Init /\ [][Next]_vars

\* ---- SelectPage alone --------------------------------------------------

\* The folder "modded" holds any content and the module either blacklist.
InitSelect ==
    /\ InitProgram
    /\ fs \in {[MainFs EXCEPT !["modded"] = c] : c \in Contents}
    /\ blacklist \in Blacklists

NextSelect ==
    \/ \E p \in Paths : Browse(p)
    \/ \E o \in {AllPresent} : Verify(o)

SpecSelect == InitSelect /\ [][NextSelect]_vars

\* ---- the dependency scan and DependencyPage ------------------------------

NextScan ==
    \/ \E p \in PipelinePaths : Browse(p)
    \/ \E o \in [Deps -> ProbeOutcomes] : Verify(o)
    \/ \E o \in [Deps -> ProbeOutcomes] : CheckDeps(o)
    \/ SkipDependencies

SpecScan == Init /\ [][NextScan]_vars

NextDeps ==
    \/ \E o \in ProbeRuns : CheckDeps(o)
    \/ SkipDependencies
    \/ \E t \in InstallThreads : InstallClick(t)
    \/ \E t \in InstallThreads : InstallerStep(t)

SpecDeps == Init /\ [][NextDeps]_vars

\* ---- every handler that writes deps_ok -----------------------------------------

NextAck ==
    \/ \E p \in PipelinePaths : Browse(p)
    \/ \E o \in PipelineRuns : Verify(o)
    \/ NextDeps

SpecAck == Init /\ [][NextAck]_vars

\* ---- InstallPage with its poller -----------------------------------------------

\* Start is pressed on the Install page, the wizard's third, which has no
\* button back to the Select and Dependency pages
NeverStarted == \A w \in Workers : pc[w] = "idle"

NextPoll ==
    \/ NeverStarted /\ \E p \in PipelinePaths : Browse(p)
    \/ NeverStarted /\ Verify(AllPresent)
    \/ \E w \in Workers : Start(w)
    \/ EnableStart
    \/ \E w \in Workers : WorkerStep(w)
    \/ TickShow
    \/ TickRearm

SpecPoll == Init /\ [][NextPoll]_vars

\* ---- InstallPage, with what the worker thread does on its own -------------------

\* the statements of _worker that wait for nothing: not for the server, not
\* for 7zr, not for the user to dismiss a message box
OwnStep(w) ==
    \/ CheckPreconditions(w)
    \/ BeginDownload(w)
    \/ ChunkStatus(w)
    \/ MergeMove(w)
    \/ MergeFail(w)
    \/ SetPermissions(w)
    \/ CompleteProgress(w)
    \/ CompletePhase(w)
    \/ CompleteFlags(w)
    \/ ShowError(w)
    \/ Cleanup(w)
    \/ ScheduleEnable(w)

NextLive ==
    \/ NeverStarted /\ \E p \in PipelinePaths : Browse(p)
    \/ NeverStarted /\ Verify(AllPresent)
    \/ \E w \in Workers : Start(w)
    \/ EnableStart
    \/ \E w \in Workers : WorkerStep(w)

\* a started thread runs, and the main loop runs the callbacks given to after
Fairness ==
    /\ \A w \in Workers : WF_vars(OwnStep(w))
    /\ WF_vars(EnableStart)

SpecLive == Init /\ [][NextLive]_vars /\ Fairness

\* ---- properties -------------------------------------------------------------

Terminal == {"complete", "error"}
Busy == {"downloading", "installing"}
NoneActive == \A w \in Workers : ~Active(w)
SomeFinished == \E w \in Workers : pc[w] \in {"done", "crashed"}
Last(s) == s[Len(s)]

\* the spec's name of a value of InstallPage.phase
SpecPhase(ph) ==
    CASE ph = "waiting" -> "idle"
      [] ph = "installing" -> "extracting"
      [] ph = "error" -> "failed"
      [] OTHER -> ph
SpecTrace == [i \in 1..Len(trace) |-> SpecPhase(trace[i])]

\* the order of the phases
Rank(ph) ==
    CASE ph = "waiting" -> 0
      [] ph = "downloading" -> 1
      [] ph = "installing" -> 2
      [] ph = "complete" -> 3
      [] OTHER -> 4

Thm_C3 ==
    /\ aborted =>
          /\ phase = "waiting" /\ progress = 0
          /\ trace = <<>> /\ ~written
          /\ ~archive /\ target = InitTarget
          /\ raised = "none" /\ extracts = 0
    /\ phase # "waiting" => deps_ok /\ game_path # ""
    /\ \A w \in Workers :
          pc[w] \notin {"idle", "done", "crashed", "chk_deps", "abort_msg",
                        "finally", "schedule"} => deps_ok /\ game_path # ""

Wit_C3 ==
    /\ aborted /\ NoneActive /\ SomeFinished
    /\ deps_ok /\ game_path = ""

\* C4 as stated: however the worker ends, the finally block has tried to
\* delete the archive, and no archive is left.
CE_C4 ==
    (NoneActive /\ SomeFinished) =>
        /\ cleanup \in {"removed", "swallowed"}
        /\ ~archive

\* C5: at most one worker thread runs; while one runs, and so while the phase
\* is downloading or installing, the start button is disabled.
Thm_C5 ==
    /\ Cardinality({w \in Workers : Active(w)}) <= 1
    /\ (\E w \in Workers : Active(w)) => ~start_btn
    /\ phase \in Busy => ~start_btn

Wit_C5 ==
    /\ \E w \in Workers : pc[w] = "extract"
    /\ phase = "installing" /\ ~start_btn
    /\ install_success          \* a second attempt, after one that completed

\* C6 as stated: once a worker has ended, the start button is enabled again or
\* the callback that enables it is queued.
CE_C6 ==
    (NoneActive /\ SomeFinished) => (start_btn \/ enable_pending > 0)

\* C7 as stated: within one attempt no write of the progress is below the
\* value written before it.
CE_C7 == [][(written /\ written') => progress' >= progress]_vars

\* C8: the phases an attempt writes go strictly forward in the order
\* downloading, installing, complete, but for a step to error; nothing is
\* written after complete or error.
Thm_C8 ==
    /\ trace # <<>> => /\ phase = Last(trace)
                       /\ trace[1] = "downloading"
    /\ \A i \in 1..(Len(trace) - 1) :
          /\ trace[i] \notin Terminal
          /\ trace[i + 1] = "error" \/ Rank(trace[i + 1]) > Rank(trace[i])

Wit_C8 ==
    /\ trace = <<"downloading", "installing", "error">>
    /\ raised = "merge" /\ NoneActive

\* C9 as stated: an attempt that has not yet reported download progress shows
\* progress 0, and before its first phase write the phase is waiting.
CE_C9 ==
    \A w \in Workers :
        (Active(w) /\ ~written /\ ~aborted /\ raised = "none") =>
            /\ progress = 0
            /\ trace = <<>> => phase = "waiting"

\* C10: the step to error, and every later step of the failed attempt, leaves
\* the progress as it was.
Thm_C10 ==
    [][(trace' # <<>> /\ Last(trace') = "error") => progress' = progress]_vars

Wit_C10 ==
    /\ phase = "error" /\ trace # <<>> /\ Last(trace) = "error" /\ NoneActive
    /\ raised = "extract" /\ progress = ExtractProgress(50)

\* C11 as stated: the error box of a failing attempt is never on the screen
\* before the finally block has tried to delete the scratch archive.
CE_C11 ==
    \A w \in Workers : pc[w] = "err_msg" => cleanup # "none"

\* C12 as stated: with a Content-Length, the fraction dl/total the download
\* reports stays within 0..1 (0..Half in units of 1/200) and never goes down
\* from one chunk to the next.
CE_C12 ==
    [][\A w \in Workers :
          (total'[w] # 0 /\ pc'[w] \in {"recv", "recv_status"}) =>
              /\ DownloadProgress(dl'[w], total'[w]) \in 0..Half
              /\ pc[w] \in {"recv", "recv_status"} =>
                    DownloadProgress(dl'[w], total'[w])
                        >= DownloadProgress(dl[w], total[w])]_vars

Range(s) == {s[i] : i \in 1..Len(s)}

\* the blacklist entries present in folder p: an entry written with a trailing
\* slash is present when a directory of its name is there, any other entry
\* when a file of its name is there
PresentEntries(p) ==
    {e \in Range(blacklist) :
        IF EndsWithSlash(e) THEN RStrip(e) \in fs[p].dirs ELSE e \in fs[p].files}

MarkerIsFile(p) == p \in Paths /\ EXPECTED_EXECUTABLE \in fs[p].files

\* C14: when verify has looked at a folder that holds the marker file, the
\* names it found are exactly the blacklist entries present in the folder,
\* each once (none when the folder is clean).
Thm_C14 ==
    (verify_msg.title # "none" /\ MarkerIsFile(path_var)) =>
        /\ Range(verify_msg.mods) = {RStrip(e) : e \in PresentEntries(path_var)}
        /\ Len(verify_msg.mods) = Cardinality(PresentEntries(path_var))

Wit_C14 ==
    /\ verify_msg.title = "Modified Installation Detected"
    /\ blacklist = DIR_BLACKLIST
    /\ verify_msg.mods = <<"modloader.asi", "mods">>
    /\ "d3d9.dll" \in fs[path_var].dirs

\* C15: verify accepts a folder exactly when the marker is a file in it and
\* no blacklist entry is present; without the marker it shows the "not found"
\* box, with the marker and a blacklist entry the "modified installation"
\* box; game_path changes only in a step that accepts, and then to the folder
\* verified.
Thm_C15 ==
    [][/\ verify_msg'.title # "none" =>
            /\ verify_msg'.title = "Verified" <=>
                   (MarkerIsFile(path_var') /\ PresentEntries(path_var') = {})
            /\ verify_msg'.title = "Error" <=> ~MarkerIsFile(path_var')
            /\ verify_msg'.title = "Verified" => game_path' = path_var'
       /\ game_path' # game_path =>
            /\ verify_msg'.title = "Verified"
            /\ game_path' = path_var']_vars

Wit_C15 ==
    /\ verify_msg.title = "Verified"
    /\ path_var = "modded" /\ game_path = "modded"
    /\ "d3d9.dll" \in fs["modded"].dirs

\* C16 as stated: once a folder is recorded in game_path, no browse and no
\* verify changes game_path.
CE_C16 == [][game_path # "" => game_path' = game_path]_vars

\* ---- the dependency scan -------------------------------------------------

\* C17: whatever the three probes answer (true, false or an exception), a scan
\* calls each probe once, in the order of DEPENDENCIES, and its `missing` list
\* holds exactly the dependencies whose probe answered false or raised, each
\* once.
Thm_C17 ==
    scanned # NoScan =>
        /\ scanned.calls = DEPENDENCIES
        /\ Range(scanned.missing) = Missing(scanned.outcome)
        /\ Len(scanned.missing) = Cardinality(Missing(scanned.outcome))

Wit_C17 ==
    /\ scanned.outcome = [d \in Deps |-> IF d = "DirectX" THEN "raises"
                                         ELSE IF d = "DotNet" THEN "true"
                                         ELSE "false"]
    /\ scanned.missing = <<"DirectX", "VC">>
    /\ dep_missing = <<"DirectX", "VC">>

\* ---- DependencyPage ---------------------------------------------------------

\* C26: in a thread of _install_deps every ShellExecuteW call but a failing
\* last one returned more than 32; the error box is for a launch exactly when
\* the last call returned 32 or less, and when it is for a download the
\* installer of that dependency was never launched; a dependency leaves the
\* list as soon as its launch returned more than 32.
Thm_C26 ==
    \A t \in InstallThreads :
        LET n == Len(launches[t])
            started == {i \in 1..n : launches[t][i].code > 32}
        IN /\ \A i \in 1..(n - 1) : i \in started
           /\ ierr[t] = "launch" <=> (n > 0 /\ n \notin started)
           /\ ierr[t] # "none" <=> ipc[t] = "err_box"
           /\ ierr[t] = "download" =>
                 \A i \in 1..n : launches[t][i].dep # Head(iq[t])
           /\ \A i \in started : \A j \in 1..Len(iq[t]) :
                 launches[t][i].dep # iq[t][j]

Wit_C26 ==
    \E t \in InstallThreads :
        /\ ipc[t] = "err_box" /\ ierr[t] = "launch"
        /\ Len(launches[t]) = 2
        /\ launches[t][1].code = 33 /\ launches[t][2].code = 32

\* C18 as stated: deps_ok is true only after a scan that found nothing
\* missing, after the user chose to skip, or after the user confirmed the
\* notice that follows the launch of the installers.
CE_C18 == deps_ok => acked

\* ---- the merge of the root-wrapped variant -------------------------------

\* C19: in the root-wrapped variant no step changes an entry of the game
\* folder that the archive's root folder does not hold, and once the merge
\* loop has moved every child without an exception, each child's name holds
\* the archive's version alone, whether the name was there before or not.
Thm_C19 ==
    variant = "rootwrapped" =>
        /\ \A n \in Names \ Children : target[n] = InitTarget[n]
        /\ (moved /\ raised = "none" /\ \A w \in Workers : todo[w] = {}) =>
              \A n \in Children : target[n] = "new"

Wit_C19 ==
    /\ variant = "rootwrapped" /\ moved /\ raised = "none"
    /\ NoneActive /\ phase = "complete"
    /\ target = [n \in Names |-> IF n \in Children THEN "new" ELSE "old"]

\* C20: when the temporary directory does not list exactly one directory
\* (nothing, a single file, or two entries), the attempt raises for the
\* layout, moves and removes nothing in the game folder, skips the permission
\* walk, and ends in phase error.
Thm_C20 ==
    (variant = "rootwrapped" /\ layout \notin {NoListing, <<"dir">>}) =>
        /\ raised = "layout"
        /\ ~touched /\ ~moved /\ ~normalized
        /\ \A w \in Workers : todo[w] = {}
        /\ NoneActive => (phase = "error" /\ Last(trace) = "error")

Wit_C20 ==
    /\ variant = "rootwrapped" /\ layout = <<"file">> /\ raised = "layout"
    /\ NoneActive /\ phase = "error" /\ ~touched

\* C21 as stated: in the root-wrapped variant every step leaves each entry of
\* the game folder either as it was or as the archive's version, so that
\* wherever the merge stops no entry is missing or half-replaced.
CE_C21 ==
    [][variant = "rootwrapped" =>
          \A n \in Names : target'[n] \in {target[n], "new"}]_vars

CE_C29 == raised \in {"download", "extract"} => ~touched

\* C24: on whatever set of paths the permission walk fails, the failures are
\* only logged: an attempt that ran the walk has raised nothing, and once its
\* thread has ended the phase is complete and the install counts as a success.
Thm_C24 ==
    normalized =>
        /\ raised = "none"
        /\ NoneActive => (phase = "complete" /\ install_success)

Wit_C24 ==
    /\ normalized /\ warned = Names
    /\ NoneActive /\ phase = "complete" /\ install_success

\* C22: a run of refresh_ui schedules the next one exactly when the phase it
\* reads at its end is neither complete nor error; the poller stops only in
\* such a run and never while the phase is downloading or installing.
Thm_C22 ==
    [][/\ (poll = "running" /\ poll' # "running") =>
              (poll' = "armed" <=> phase \notin Terminal)
       /\ (poll # "stopped" /\ poll' = "stopped") =>
              (poll = "running" /\ phase \in Terminal)
       /\ (poll = "running" /\ phase \in Busy) => poll' # "stopped"]_vars

Wit_C22 ==
    /\ poll = "stopped" /\ phase = "complete"
    /\ \E w \in Workers : pc[w] = "done"

\* C23 as stated: what one run of refresh_ui reads belongs to one update of
\* the worker: never the installing phase with the download's status text,
\* never the complete phase with a progress short of 1.0.
CE_C23 ==
    /\ seen.phase = "installing" => seen.file # "Downloading"
    /\ seen.phase = "complete" => seen.progress = Full

\* C30 as stated: while a worker is in the downloading or installing phase
\* refresh_ui is pending or running.
CE_C30 ==
    ((\E w \in Workers : Active(w)) /\ phase \in Busy) => poll # "stopped"

\* the download stream ends and the extraction subprocess exits: no thread
\* stays forever in requests.get, in iter_content or in extract_with_7zr
StreamsEnd ==
    \A w \in Workers : []<>(pc[w] \notin {"connect", "recv", "extract"})

\* C27 as stated: provided the stream ends and the subprocess exits, a phase
\* of downloading or installing is followed by complete or error.
CE_C27 == StreamsEnd => ((phase \in Busy) ~> (phase \in Terminal))

\* C28 as stated: a thread inside extract_with_7zr eventually leaves it, also
\* when 7zr prints nothing more and does not exit.
CE_C28 == \A w \in Workers : (pc[w] = "extract") ~> (pc[w] # "extract")

\* C31 as stated: the run of refresh_ui that reads phase complete and stops
\* the poller has put progress 1.0 on the bar.
CE_C31 ==
    [][(poll = "running" /\ poll' = "stopped" /\ phase = "complete") =>
           seen.progress = Full]_vars

\* C32: whenever no worker thread runs, install_success is true exactly when
\* the phase is complete.
Thm_C32 == NoneActive => (install_success <=> phase = "complete")

\* an attempt that failed in the download, after one that had merged both
\* entries of the archive and so had completed
Wit_C32 ==
    /\ variant = "rootwrapped" /\ NoneActive
    /\ raised = "download" /\ phase = "error" /\ ~install_success
    /\ \A n \in Children : target[n] = "new"

\* C33: in the root-wrapped variant the temporary directory exists exactly
\* while a worker is inside the with block (extraction and merge): after an
\* extraction failure, an unexpected layout, a failure in the merge and after
\* the merge has ended it is gone, and so it is when no worker runs.
Thm_C33 ==
    /\ tmpdir <=> (variant = "rootwrapped" /\ \E w \in Workers : pc[w] \in {"extract", "merge"})
    /\ NoneActive => ~tmpdir

\* the merge moved one entry and failed on the other; the thread has ended
Wit_C33 ==
    /\ variant = "rootwrapped" /\ NoneActive /\ ~tmpdir
    /\ raised = "merge" /\ moved /\ phase = "error"

\* C34: a verify that ends in one of its two error boxes changes neither
\* game_path nor deps_ok, and game_path is always empty or a folder that
\* holds the marker file and no blacklist entry, whatever folder is selected.
Thm_C34 ==
    /\ [](game_path = "" \/ (MarkerIsFile(game_path) /\ PresentEntries(game_path) = {}))
    /\ [][(/\ verify_msg' # verify_msg
           /\ verify_msg'.title \in {"Error", "Modified Installation Detected"})
              => UNCHANGED <<game_path, deps_ok>>]_vars

\* a folder was accepted, then one without the marker was selected and refused
Wit_C34 ==
    /\ game_path = "gameA" /\ deps_ok
    /\ path_var = "nomarker" /\ verify_msg.title = "Error"

\* C35: deps_ok, once true, stays true in every step.
Thm_C35 == [][deps_ok => deps_ok']_vars

\* the dependencies were skipped; a later scan found one missing and its
\* installer failed to launch
Wit_C35 ==
    /\ deps_ok /\ dep_missing # <<>>
    /\ \E t \in InstallThreads : ipc[t] = "err_box" /\ ierr[t] = "launch"

\* the dependencies whose installer a thread has started, in the order of
\* the launches
RECURSIVE StartedFrom(_, _)
StartedFrom(ls, i) ==
    IF i > Len(ls) THEN <<>>
    ELSE (IF ls[i].code > 32 THEN <<ls[i].dep>> ELSE <<>>) \o StartedFrom(ls, i + 1)

StartedDeps(t) == StartedFrom(launches[t], 1)

\* C36: a thread of _install_deps takes the missing dependencies in the order
\* of the scan; after a download or a launch that failed it downloads and
\* launches nothing more and ends without a write of deps_ok; a thread sets
\* deps_ok only when the installer of every dependency on its list was
\* started.
Thm_C36 ==
    [][/\ \A t \in InstallThreads :
             /\ (ipc[t] = "idle" /\ ipc'[t] # "idle") =>
                    (iq'[t] = dep_missing /\ iq'[t] # <<>> /\ launches'[t] = <<>>)
             /\ (ipc[t] # "idle" /\ ipc'[t] # "idle") =>
                    /\ StartedDeps(t)' \o iq'[t] = StartedDeps(t) \o iq[t]
                    /\ \A i \in 1..Len(launches'[t]) :
                           launches'[t][i].dep = (StartedDeps(t)' \o iq'[t])[i]
             /\ ipc[t] = "err_box" =>
                    /\ ipc'[t] \in {"err_box", "idle"}
                    /\ ipc'[t] = "err_box" => (launches'[t] = launches[t] /\ iq'[t] = iq[t])
                    /\ ipc'[t] = "idle" => deps_ok' = deps_ok
             /\ (ipc[t] # "notice" /\ ipc'[t] = "notice") =>
                    /\ iq[t] = <<>> /\ ierr[t] = "none"
                    /\ launches[t] # <<>>
                    /\ \A i \in 1..Len(launches[t]) : launches[t][i].code > 32
       /\ (deps_ok' /\ ~deps_ok /\ threadVars' # threadVars) =>
             \E t \in InstallThreads : ipc[t] # "notice" /\ ipc'[t] = "notice"]_vars

\* two dependencies were missing: the first installer was started, the launch
\* of the second failed, and deps_ok is still false
Wit_C36 ==
    /\ ~deps_ok
    /\ \E t \in InstallThreads :
          /\ ipc[t] = "err_box" /\ ierr[t] = "launch"
          /\ Len(launches[t]) = 2 /\ Len(iq[t]) = 2
          /\ launches[t][1].code > 32

====
